---------------------------- MODULE Spec2Model ----------------------------
(*************************************************************************)
(* A model of two pieces of the MathJax sources:                         *)
(*   - the CommonHtmlNode wrapper mixin (computeBBox, getHTML, addHDW,   *)
(*     getHDW, splitHDW), and                                            *)
(*   - HTMLHandler.HandlesDocument / Create and the MML registry.        *)
(*                                                                       *)
(* JavaScript values are records [t |-> <type tag>, v |-> <payload>].    *)
(* Numbers are integers (lengths in em units); NaN and undefined are     *)
(* values of their own, since the arithmetic of the mixin can make them. *)
(*************************************************************************)
EXTENDS Integers, Sequences, FiniteSets, TLC

VARIABLES
  htmlHDW,      \* this.jax.options.htmlHDW
  nodeHTML,     \* (this.node as HtmlNode).getHTML(): the node's raw HTML
  metrics,      \* this.jax.math.metrics: [scale, family]
  parent,       \* this.parent: [variant, styles]
  startFamily,  \* adaptor.fontFamily(adaptor.parent(jax.math.start.node))
  bbox,         \* the BBox object handed to computeBBox
  ret,          \* the last call of a mixin method: its name, arguments, result
  trace,        \* the calls that method made to measureXMLnode and addHDW
  MML,          \* the registry object under construction
  mmlPos,       \* how many entries of the MML object literal are evaluated
  mmlQuery,     \* the last lookup in the registry
  env,          \* the window object: which constructors it defines
  handled,      \* the last HandlesDocument call: argument and outcome
  created       \* the last Create call: argument and outcome

htmlVars    == <<htmlHDW, nodeHTML, metrics, parent, startFamily, bbox, ret, trace>>
mmlVars     == <<MML, mmlPos, mmlQuery>>
handlerVars == <<env, handled, created>>
vars        == <<htmlVars, mmlVars, handlerVars>>

-----------------------------------------------------------------------------
(* Bounds *)

\* The longest data-mjx-hdw attribute value, in characters.
MaxLen == 6

-----------------------------------------------------------------------------
(* JavaScript values *)

Undefined == [t |-> "undefined", v |-> 0]
Null      == [t |-> "null", v |-> 0]
NaN       == [t |-> "NaN", v |-> 0]
Num(n)    == [t |-> "number", v |-> n]
Str(s)    == [t |-> "string", v |-> s]

\* ToBoolean: undefined, null, NaN, 0 and the empty string are falsy.
\* A string is a TLA+ string (names, font families) or a sequence of
\* characters (attribute values).
Truthy(x) ==
  CASE x.t \in {"undefined", "null", "NaN"} -> FALSE
    [] x.t = "number" -> x.v # 0
    [] x.t = "string" -> x.v # ""
    [] x.t = "chars"  -> x.v # <<>>
    [] OTHER -> TRUE

Chars(s) == [t |-> "chars", v |-> s]

\* a + b on numbers; anything else the mixin can feed it gives NaN
JsAdd(a, b) == IF a.t = "number" /\ b.t = "number" THEN Num(a.v + b.v) ELSE NaN

\* unary minus
JsNeg(a) == IF a.t = "number" THEN Num(0 - a.v) ELSE NaN


-----------------------------------------------------------------------------
(* The DOM adaptor and the helpers of the output jax that the mixin calls *)

StyleKeys == {"height", "width", "vertical-align", "position",
              "font-size", "font-family", "color"}

\* const styles: StyleList = {}
NoStyle == [k \in StyleKeys |-> Undefined]

Obj(x) == [t |-> "object", v |-> x]

\* the characters a data-mjx-hdw value is made of here: a blank and a digit
Alphabet == {" ", "1"}

AttrStrings == UNION {[1..n -> Alphabet] : n \in 0..MaxLen}

\* what adaptor.getAttribute can give: null (no attribute) or a string
AttrValues == {Null} \cup {Chars(s) : s \in AttrStrings}

\* an element of the DOM: identity, tag name, attributes, children
Element(id, name, hdw, variant, style, children) ==
  [id |-> id, name |-> name, hdw |-> hdw, variant |-> variant,
   style |-> style, children |-> children]

\* adaptor.getAttribute(node, name)
GetAttribute(html, name) ==
  IF name = "data-mjx-hdw" THEN html.hdw ELSE Null

\* adaptor.clone(node): a copy with an identity of its own
Clone(html, fresh) == [html EXCEPT !.id = fresh]

\* this.html(type, def, content): a new element
Html(fresh, type, def, content) ==
  Element(fresh, type, Null, def.variant, def.style, content)

\* the def object {}
EmptyDef == [variant |-> Undefined, style |-> Undefined]

\* this.em(m): the length m as a CSS string in em units
Em(m) == [t |-> "em", v |-> m]

\* jax.fixed(m, n): m as a string with n decimals
Fixed(m, n) == [t |-> "fixed", v |-> <<m, n>>]

\* string + '%'
Percent(x) == [t |-> "percent", v |-> x]

\* a || b
Or(a, b) == IF Truthy(a) THEN a ELSE b

RECURSIVE TrimLeft(_)
TrimLeft(s) ==
  IF s # <<>> /\ Head(s) = " " THEN TrimLeft(Tail(s)) ELSE s

RECURSIVE TrimRight(_)
TrimRight(s) ==
  IF s # <<>> /\ s[Len(s)] = " " THEN TrimRight(SubSeq(s, 1, Len(s) - 1)) ELSE s

\* s.split(/\s+/) of a trimmed string, cur the part being read
RECURSIVE SplitWS(_, _)
SplitWS(s, cur) ==
  IF s = <<>> THEN <<cur>>
  ELSE IF Head(s) = " " THEN <<cur>> \o SplitWS(TrimLeft(Tail(s)), <<>>)
  ELSE SplitWS(Tail(s), Append(cur, Head(s)))

\* split(x) of util/string.js: x.trim().split(/\s+/)
Split(s) == SplitWS(TrimRight(TrimLeft(s)), <<>>)

\* this.length2em(x) of a string of digits: its value in em units
RECURSIVE Length2em(_)
Length2em(x) ==
  IF x = <<>> THEN 0
  ELSE 10 * Length2em(SubSeq(x, 1, Len(x) - 1))
         + (IF x[Len(x)] = "1" THEN 1 ELSE 0)

\* what jax.measureXMLnode can return: the measured h, d, w
Measures == {[h |-> Num(7), d |-> Num(3), w |-> Num(20)]}

-----------------------------------------------------------------------------
(* The CommonHtmlNode mixin *)

\* splitHDW(hdw)
SplitHDW(hdw) ==
  LET parts == Split(hdw)
      ems   == [i \in 1..Len(parts) |->
                  Num(Length2em(IF parts[i] = <<>> THEN <<"0">> ELSE parts[i]))]
      at(i) == IF i <= Len(ems) THEN ems[i] ELSE Undefined
  IN [h |-> at(1), d |-> at(2), w |-> at(3)]

\* getHDW with the second value forgotten in the test of the option
GetHDW_UseOnly(html, use, force) ==
  LET option == htmlHDW
      hdw    == GetAttribute(html, "data-mjx-hdw")
  IN IF Truthy(hdw) /\ option = use THEN hdw ELSE Null

\* getHDW with 'force' for the default of force, in place of use
GetHDW_ForceDefault(html, use, force) ==
  LET f      == IF force = Undefined THEN Str("force") ELSE force
      option == htmlHDW
      hdw    == GetAttribute(html, "data-mjx-hdw")
  IN IF Truthy(hdw) /\ (option = use \/ option = f) THEN hdw ELSE Null

\* getHDW(html, use, force = use)
GetHDW(html, use, force) ==
  LET f      == IF force = Undefined THEN use ELSE force
      option == htmlHDW
      hdw    == GetAttribute(html, "data-mjx-hdw")
  IN IF Truthy(hdw) /\ (option = use \/ option = f) THEN hdw ELSE Null

\* addHDW acting under 'use' as it does under 'force'
AddHDW_UseOrForce(html, styles, fresh) ==
  LET option == htmlHDW
      hdw    == GetAttribute(html, "data-mjx-hdw")
  IN IF ~(Truthy(hdw) /\ option \in {Str("use"), Str("force")})
     THEN [value |-> html, styles |-> styles]
     ELSE LET b == SplitHDW(hdw.v)
          IN [value  |-> Html(fresh, "mjx-html-holder", EmptyDef, <<html>>),
              styles |-> [styles EXCEPT !["height"] = Em(JsAdd(b.h, b.d)),
                                        !["width"] = Em(b.w),
                                        !["vertical-align"] = Em(JsNeg(b.d)),
                                        !["position"] = Str("relative")]]

\* addHDW(html, styles): the element returned and the styles object after
\* the call; fresh is the identity of the element it may create
AddHDW(html, styles, fresh) ==
  LET hdw == GetHDW(html, Str("force"), Undefined)
  IN IF ~Truthy(hdw) THEN [value |-> html, styles |-> styles]
     ELSE LET b == SplitHDW(hdw.v)
          IN [value  |-> Html(fresh, "mjx-html-holder", EmptyDef, <<html>>),
              styles |-> [styles EXCEPT !["height"] = Em(JsAdd(b.h, b.d)),
                                        !["width"] = Em(b.w),
                                        !["vertical-align"] = Em(JsNeg(b.d)),
                                        !["position"] = Str("relative")]]

\* this.parent.styles?.styles?.['font-family']
ParentFontFamily ==
  IF parent.styles.t \in {"undefined", "null"} THEN Undefined
  ELSE IF parent.styles.v.styles.t \in {"undefined", "null"} THEN Undefined
  ELSE parent.styles.v.styles.v["font-family"]

\* the font-family with metrics.family tried before the parent's own
FontFamily_MetricsFirst ==
  Or(Or(Or(metrics.family, ParentFontFamily), startFamily), Str("initial"))

\* the font-family getHTML chooses
FontFamily ==
  Or(Or(Or(ParentFontFamily, metrics.family), startFamily), Str("initial"))

\* the styles of getHTML once addHDW has filled in s
FontStyles(s) ==
  LET s1 == IF metrics.scale # 1
            THEN [s EXCEPT !["font-size"] =
                     Percent(Fixed(Num(100 \div metrics.scale), 1))]
            ELSE s
  IN [s1 EXCEPT !["font-family"] = FontFamily]

\* getHTML(): the element returned and the calls made on the way
GetHTML ==
  LET cl == Clone(nodeHTML, 1)
      a  == AddHDW(cl, NoStyle, 2)
  IN [value |-> Html(3, "mjx-html",
                     [variant |-> parent.variant,
                      style |-> Obj(FontStyles(a.styles))],
                     <<a.value>>),
      trace |-> <<[fn |-> "addHDW", args |-> <<cl, NoStyle>>,
                   result |-> a.value]>>]

\* computeBBox(bbox)
ComputeBBox ==
  LET hdw == GetHDW(nodeHTML, Str("use"), Str("force"))
  IN /\ IF Truthy(hdw)
        THEN /\ bbox' = SplitHDW(hdw.v)
             /\ trace' = <<>>
        ELSE LET g == GetHTML
             IN \E m \in Measures :
                  /\ bbox' = m
                  /\ trace' = Append(g.trace,
                                [fn |-> "measureXMLnode", args |-> <<g.value>>,
                                 result |-> m])
     /\ ret' = [op |-> "computeBBox", args |-> <<>>, value |-> Undefined,
                styles |-> NoStyle]
     /\ UNCHANGED <<htmlHDW, nodeHTML, metrics, parent, startFamily>>
     /\ UNCHANGED <<mmlVars, handlerVars>>

\* a call of getHTML()
CallGetHTML ==
  LET g == GetHTML
  IN /\ ret' = [op |-> "getHTML", args |-> <<>>, value |-> g.value,
                styles |-> NoStyle]
     /\ trace' = g.trace
     /\ UNCHANGED <<htmlHDW, nodeHTML, metrics, parent, startFamily, bbox>>
     /\ UNCHANGED <<mmlVars, handlerVars>>

\* the styles objects addHDW is called with
StylesIn == {NoStyle, [NoStyle EXCEPT !["color"] = Str("red"),
                                      !["height"] = Str("1px")]}

\* a call of addHDW(html, styles)
CallAddHDW ==
  \E html \in {nodeHTML, Clone(nodeHTML, 1)}, styles \in StylesIn :
    LET a == AddHDW(html, styles, 2)
    IN /\ ret' = [op |-> "addHDW", args |-> <<html, styles>>,
                  value |-> a.value, styles |-> a.styles]
       /\ trace' = <<>>
       /\ UNCHANGED <<htmlHDW, nodeHTML, metrics, parent, startFamily, bbox>>
       /\ UNCHANGED <<mmlVars, handlerVars>>

\* the values of htmlHDW, and of the use and force arguments
Options == {Str("auto"), Str("use"), Str("force"), Str("ignore")}

\* a call of getHDW(html, use, force), force possibly left out
CallGetHDW ==
  \E use \in {Str("use"), Str("force")},
     force \in {Undefined, Str("use"), Str("force")} :
    /\ ret' = [op |-> "getHDW", args |-> <<nodeHTML, use, force>>,
               value |-> GetHDW(nodeHTML, use, force), styles |-> NoStyle]
    /\ trace' = <<>>
    /\ UNCHANGED <<htmlHDW, nodeHTML, metrics, parent, startFamily, bbox>>
    /\ UNCHANGED <<mmlVars, handlerVars>>

NoCall == [op |-> "none", args |-> <<>>, value |-> Undefined, styles |-> NoStyle]

ParentStyles ==
  {Undefined,
   Obj([styles |-> Obj(NoStyle)]),
   Obj([styles |-> Obj([NoStyle EXCEPT !["font-family"] = Str("cursive")])])}

-----------------------------------------------------------------------------
(* The MML registry *)

\* the classes of the MML object literal, in the order it lists them
Classes ==
  <<"MmlMath",
    "MmlMi", "MmlMn", "MmlMo", "MmlMtext", "MmlMspace", "MmlMs",
    "MmlMrow", "MmlInferredMrow", "MmlMfrac", "MmlMsqrt", "MmlMroot",
    "MmlMstyle", "MmlMerror", "MmlMpadded", "MmlMphantom", "MmlMfenced",
    "MmlMenclose",
    "MmlMaction",
    "MmlMsub", "MmlMsup", "MmlMsubsup", "MmlMunder", "MmlMover",
    "MmlMunderover", "MmlMmultiscripts", "MmlMprescripts", "MmlNone",
    "MmlMtable", "MmlMlabeledtr", "MmlMtr", "MmlMtd", "MmlMaligngroup",
    "MmlMalignmark",
    "MmlSemantics", "MmlAnnotation", "MmlAnnotationXML",
    "TeXAtom",
    "TextNode", "XMLNode">>

\* C.prototype.kind of each class: its MathML element kind
KindOf ==
  [MmlMath |-> "math",
   MmlMi |-> "mi", MmlMn |-> "mn", MmlMo |-> "mo", MmlMtext |-> "mtext",
   MmlMspace |-> "mspace", MmlMs |-> "ms",
   MmlMrow |-> "mrow", MmlInferredMrow |-> "inferredMrow",
   MmlMfrac |-> "mfrac", MmlMsqrt |-> "msqrt", MmlMroot |-> "mroot",
   MmlMstyle |-> "mstyle", MmlMerror |-> "merror", MmlMpadded |-> "mpadded",
   MmlMphantom |-> "mphantom", MmlMfenced |-> "mfenced",
   MmlMenclose |-> "menclose",
   MmlMaction |-> "maction",
   MmlMsub |-> "msub", MmlMsup |-> "msup", MmlMsubsup |-> "msubsup",
   MmlMunder |-> "munder", MmlMover |-> "mover",
   MmlMunderover |-> "munderover", MmlMmultiscripts |-> "mmultiscripts",
   MmlMprescripts |-> "mprescripts", MmlNone |-> "none",
   MmlMtable |-> "mtable", MmlMlabeledtr |-> "mlabeledtr", MmlMtr |-> "mtr",
   MmlMtd |-> "mtd", MmlMaligngroup |-> "maligngroup",
   MmlMalignmark |-> "malignmark",
   MmlSemantics |-> "semantics", MmlAnnotation |-> "annotation",
   MmlAnnotationXML |-> "annotation-xml",
   TeXAtom |-> "TeXAtom",
   TextNode |-> "text", XMLNode |-> "XML"]

Kind(c) == KindOf[c]

\* the literal with MmlMsub keyed by the kind of MmlMsubsup
Entries_KeySlip ==
  [i \in 1..Len(Classes) |->
     [keyOf |-> IF Classes[i] = "MmlMsub" THEN "MmlMsubsup" ELSE Classes[i],
      value |-> Classes[i]]]

\* the property definitions of the literal: [C.prototype.kind]: C
Entries == [i \in 1..Len(Classes) |-> [keyOf |-> Classes[i], value |-> Classes[i]]]

\* the object with the property key set to value (a later definition of a
\* key replaces the earlier one)
DefineProperty(obj, key, value) ==
  [k \in DOMAIN obj \cup {key} |-> IF k = key THEN value ELSE obj[k]]

\* obj[key]: the class, or undefined
GetProperty(obj, key) ==
  IF key \in DOMAIN obj THEN Str(obj[key]) ELSE Undefined

\* the evaluation of the next property definition of the literal
DefineEntry ==
  /\ mmlPos < Len(Entries)
  /\ LET e == Entries[mmlPos + 1]
     IN MML' = DefineProperty(MML, Kind(e.keyOf), e.value)
  /\ mmlPos' = mmlPos + 1
  /\ UNCHANGED <<mmlQuery, htmlVars, handlerVars>>

\* the kinds a tree builder asks for: the registered ones and one that is not
QueryKinds == {Kind(Classes[i]) : i \in 1..Len(Classes)} \cup {"mglyph"}

\* MML[kind], once the module is loaded
LookupKind ==
  /\ mmlPos = Len(Entries)
  /\ \E k \in QueryKinds :
       mmlQuery' = [by |-> "kind", key |-> k, found |-> GetProperty(MML, k)]
  /\ UNCHANGED <<MML, mmlPos, htmlVars, handlerVars>>

\* MML[C.prototype.kind], once the module is loaded
LookupClass ==
  /\ mmlPos = Len(Entries)
  /\ \E i \in 1..Len(Classes) :
       mmlQuery' = [by |-> Classes[i], key |-> Kind(Classes[i]),
                    found |-> GetProperty(MML, Kind(Classes[i]))]
  /\ UNCHANGED <<MML, mmlPos, htmlVars, handlerVars>>

NoQuery == [by |-> "none", key |-> "", found |-> Undefined]

-----------------------------------------------------------------------------
(* HTMLHandler *)

\* window: whether it defines HTMLElement and DocumentFragment (DOMWindow
\* declares both optional)
Windows == [HTMLElement : BOOLEAN, DocumentFragment : BOOLEAN]

\* the values handed to HandlesDocument and Create: strings the parser
\* accepts or throws on, DOM objects, and values that are neither
Arguments ==
  {[type |-> "string", class |-> "none", parses |-> TRUE],
   [type |-> "string", class |-> "none", parses |-> FALSE],
   [type |-> "object", class |-> "Document", parses |-> FALSE],
   [type |-> "object", class |-> "HTMLElement", parses |-> FALSE],
   [type |-> "object", class |-> "DocumentFragment", parses |-> FALSE],
   [type |-> "object", class |-> "Object", parses |-> FALSE],
   [type |-> "number", class |-> "none", parses |-> FALSE]}

\* the document parser.parseFromString returns
ParsedDocument == [type |-> "object", class |-> "Document", parses |-> FALSE]

Return(x) == [kind |-> "return", value |-> x]
Throw(e)  == [kind |-> "throw", value |-> e]

\* x instanceof C, C a constructor of the window or undefined: a TypeError
\* when C is undefined
InstanceOf(x, class, defined) ==
  IF ~defined THEN Throw(Str("TypeError"))
  ELSE Return(x.type = "object" /\ x.class = class)

\* try {document = parser.parseFromString(document, 'text/html')} catch (err) {}
TryParse(document) ==
  IF document.type = "string" /\ document.parses THEN ParsedDocument
  ELSE document

\* HandlesDocument(document)
HandlesDocument(window, document) ==
  LET doc  == TryParse(document)
      isD  == InstanceOf(doc, "Document", TRUE)
      isE  == InstanceOf(doc, "HTMLElement", window.HTMLElement)
      isF  == InstanceOf(doc, "DocumentFragment", window.DocumentFragment)
  IN IF isD.value THEN Return(TRUE)
     ELSE IF isE.kind = "throw" THEN isE
     ELSE IF isE.value THEN Return(TRUE)
     ELSE IF isF.kind = "throw" THEN isF
     ELSE IF isF.value THEN Return(TRUE)
     ELSE Return(FALSE)

\* Create(document, options)
Create(document) ==
  IF document.type = "string"
  THEN IF document.parses
       THEN Return([class |-> "HTMLDocument", document |-> ParsedDocument])
       ELSE Throw(Str("ParseError"))
  ELSE Return([class |-> "HTMLDocument", document |-> document])

NotCalled == [arg |-> [type |-> "none", class |-> "none", parses |-> FALSE],
              outcome |-> [kind |-> "none", value |-> FALSE]]

\* a call of HandlesDocument
CallHandlesDocument ==
  /\ \E d \in Arguments :
       handled' = [arg |-> d, outcome |-> HandlesDocument(env, d)]
  /\ UNCHANGED <<env, created, htmlVars, mmlVars>>

\* a call of Create
CallCreate ==
  /\ \E d \in Arguments :
       created' = [arg |-> d, outcome |-> Create(d)]
  /\ UNCHANGED <<env, handled, htmlVars, mmlVars>>

-----------------------------------------------------------------------------
(* Specifications: one for each of the three pieces, the other two at rest *)

\* a wrapper of an HtmlNode, before any of its methods is called
Init ==
  /\ htmlHDW \in Options
  /\ \E a \in AttrValues :
       nodeHTML = Element(0, "span", a, Undefined, Undefined, <<>>)
  /\ metrics \in [scale : {1, 2}, family : {Str(""), Str("serif")}]
  /\ parent \in [variant : {Str("normal")}, styles : ParentStyles]
  /\ startFamily \in {Str(""), Str("monospace")}
  /\ bbox = [h |-> Num(0), d |-> Num(0), w |-> Num(0)]
  /\ ret = NoCall
  /\ trace = <<>>
  /\ MML = [k \in {} |-> ""]
  /\ mmlPos = 0
  /\ mmlQuery = NoQuery
  /\ env = [HTMLElement |-> TRUE, DocumentFragment |-> TRUE]
  /\ handled = NotCalled
  /\ created = NotCalled

Next ==
  \/ ComputeBBox
  \/ CallGetHTML
  \/ CallAddHDW
  \/ CallGetHDW

Spec == Init /\ [][Next]_vars

\* the module that defines MML, before its object literal is evaluated
InitMML ==
  /\ htmlHDW = Str("auto")
  /\ nodeHTML = Element(0, "span", Null, Undefined, Undefined, <<>>)
  /\ metrics = [scale |-> 1, family |-> Str("")]
  /\ parent = [variant |-> Str("normal"), styles |-> Undefined]
  /\ startFamily = Str("")
  /\ bbox = [h |-> Num(0), d |-> Num(0), w |-> Num(0)]
  /\ ret = NoCall
  /\ trace = <<>>
  /\ MML = [k \in {} |-> ""]
  /\ mmlPos = 0
  /\ mmlQuery = NoQuery
  /\ env = [HTMLElement |-> TRUE, DocumentFragment |-> TRUE]
  /\ handled = NotCalled
  /\ created = NotCalled

NextMML ==
  \/ DefineEntry
  \/ LookupKind
  \/ LookupClass

SpecMML == InitMML /\ [][NextMML]_vars

\* an HTMLHandler in some window, before any call
InitHandler ==
  /\ htmlHDW = Str("auto")
  /\ nodeHTML = Element(0, "span", Null, Undefined, Undefined, <<>>)
  /\ metrics = [scale |-> 1, family |-> Str("")]
  /\ parent = [variant |-> Str("normal"), styles |-> Undefined]
  /\ startFamily = Str("")
  /\ bbox = [h |-> Num(0), d |-> Num(0), w |-> Num(0)]
  /\ ret = NoCall
  /\ trace = <<>>
  /\ MML = [k \in {} |-> ""]
  /\ mmlPos = 0
  /\ mmlQuery = NoQuery
  /\ env \in Windows
  /\ handled = NotCalled
  /\ created = NotCalled

NextHandler ==
  \/ CallHandlesDocument
  \/ CallCreate

SpecHandler == InitHandler /\ [][NextHandler]_vars

-----------------------------------------------------------------------------
(* Properties of the CommonHtmlNode mixin (under Spec) *)

\* the html has a non-empty data-mjx-hdw attribute
HasHDW(html) == html.hdw.t = "chars" /\ html.hdw.v # <<>>

\* the calls to jax.measureXMLnode that the last method made
MeasureCalls == {i \in DOMAIN trace : trace[i].fn = "measureXMLnode"}

\* C1: after computeBBox, if the node's HTML has a non-empty data-mjx-hdw
\* attribute and htmlHDW is 'use' or 'force', then bbox.h, bbox.d, bbox.w are
\* the values splitHDW gives for the attribute and measureXMLnode was not
\* called; in every other case measureXMLnode was called once, with
\* getHTML(), and the three values are the ones it returned.
C1_ComputeBBoxReusesHDW ==
  ret.op = "computeBBox" =>
    IF HasHDW(nodeHTML) /\ htmlHDW \in {Str("use"), Str("force")}
    THEN /\ bbox = SplitHDW(nodeHTML.hdw.v)
         /\ MeasureCalls = {}
    ELSE \E i \in MeasureCalls :
           /\ MeasureCalls = {i}
           /\ trace[i].args = <<GetHTML.value>>
           /\ bbox.h = trace[i].result.h
           /\ bbox.d = trace[i].result.d
           /\ bbox.w = trace[i].result.w

\* computeBBox has taken h, d and w from an attribute that gives all three
C1_Witness ==
  /\ ret.op = "computeBBox"
  /\ HasHDW(nodeHTML)
  /\ htmlHDW = Str("force")
  /\ bbox.w.t = "number"
  /\ bbox.d.v > bbox.h.v
  /\ MeasureCalls = {}

\* C2: getHDW(html, use, force) returns the data-mjx-hdw value of html when
\* it is non-empty and htmlHDW equals use or force, and null otherwise; force
\* left out stands for use, so getHDW(html, 'force') gives the value under
\* 'force' only, never under 'use'.
C2_GetHDW ==
  ret.op = "getHDW" =>
    LET html  == ret.args[1]
        use   == ret.args[2]
        force == IF ret.args[3] = Undefined THEN ret.args[2] ELSE ret.args[3]
    IN /\ ret.value = IF HasHDW(html) /\ (htmlHDW = use \/ htmlHDW = force)
                      THEN html.hdw ELSE Null
       /\ (ret.args[2] = Str("force") /\ ret.args[3] = Undefined) =>
            /\ (ret.value # Null => htmlHDW = Str("force"))
            /\ (htmlHDW = Str("use") => ret.value = Null)
            /\ (HasHDW(html) /\ htmlHDW = Str("force") => ret.value = html.hdw)

\* getHDW(html, 'force') has returned the attribute
C2_Witness ==
  /\ ret.op = "getHDW"
  /\ ret.args[2] = Str("force")
  /\ ret.args[3] = Undefined
  /\ htmlHDW = Str("force")
  /\ ret.value = nodeHTML.hdw
  /\ ret.value # Null

C6_GetHTML ==
  ret.op = "getHTML" =>
    LET e  == ret.value
        st == e.style.v
        pf == IF parent.styles = Undefined THEN Undefined
              ELSE parent.styles.v.styles.v["font-family"]
    IN /\ e.name = "mjx-html"
       /\ Len(trace) = 1
       /\ trace[1].fn = "addHDW"
       /\ trace[1].args = <<Clone(nodeHTML, 1), NoStyle>>
       /\ trace[1].args[1].id # nodeHTML.id
       /\ trace[1].result = AddHDW(Clone(nodeHTML, 1), NoStyle, 2).value
       /\ e.children = <<trace[1].result>>
       /\ e.style.t = "object"
       /\ st["font-family"] # Undefined
       /\ st["font-family"] =
            IF pf # Undefined /\ pf # Str("") THEN pf
            ELSE IF metrics.family # Str("") THEN metrics.family
            ELSE IF startFamily # Str("") THEN startFamily
            ELSE Str("initial")
       /\ (st["font-size"] # Undefined) <=> (metrics.scale # 1)
       /\ metrics.scale # 1 =>
            st["font-size"] = Percent(Fixed(Num(100 \div metrics.scale), 1))

\* getHTML has taken the parent's font-family over metrics.family and the
\* start node's, and has set a font-size
C6_Witness ==
  /\ ret.op = "getHTML"
  /\ metrics.scale = 2
  /\ metrics.family = Str("serif")
  /\ startFamily = Str("monospace")
  /\ ret.value.style.v["font-family"] = Str("cursive")
  /\ ret.value.style.v["font-size"] = Percent(Fixed(Num(50), 1))
  /\ ret.value.children[1].name = "mjx-html-holder"

-----------------------------------------------------------------------------
(* Properties of the MML registry (under SpecMML) *)

-----------------------------------------------------------------------------
(* Properties of HTMLHandler (under SpecHandler) *)

\* the argument of HandlesDocument once a string has been parsed
Parsed(d) == IF d.type = "string" /\ d.parses THEN ParsedDocument ELSE d

\* C4: HandlesDocument never throws, and returns true exactly when its
\* argument, a string having been parsed, is a Document, an HTMLElement or a
\* DocumentFragment; a string whose parsing throws gives false.
C4_HandlesDocumentTotal ==
  handled # NotCalled =>
    /\ handled.outcome.kind = "return"
    /\ handled.outcome.value =
         (/\ Parsed(handled.arg).type = "object"
          /\ Parsed(handled.arg).class \in
               {"Document", "HTMLElement", "DocumentFragment"})

=============================================================================
